---- MODULE Spec2Model ----
(***************************************************************************)
(* Validating dispatcher of nexting: makeServerAction / makeApiController, *)
(* validateInput, handleError, parseServerError and ServerError.           *)
(*                                                                         *)
(* One dispatch is modelled from the call of the returned callable to its  *)
(* terminal state.  Optional JavaScript values (undefined) are modelled as *)
(* None == <<>> and a present value v as Some(v) == <<v>>.                  *)
(***************************************************************************)
EXTENDS Integers, Sequences, FiniteSets, TLC

None == <<>>
Some(v) == <<v>>
\* JavaScript's  o ?? d  and the destructuring default  { x = d }
OrDefault(o, d) == IF o = None THEN d ELSE o[1]

(***************************************************************************)
(* http-status-codes                                                       *)
(***************************************************************************)
OK == 200
CREATED == 201
NO_CONTENT == 204
BAD_REQUEST == 400
NOT_FOUND == 404
INTERNAL_SERVER_ERROR == 500
BAD_GATEWAY == 502

(***************************************************************************)
(* ServerError                                                             *)
(***************************************************************************)
\* ServerErrorProps: message is required, everything else optional
ServerErrorProps ==
  [message : {"Custom error"},
   code : {None, Some("CUSTOM_ERROR")},
   status : {None, Some(OK), Some(NOT_FOUND)},
   uiMessage : {None, Some("Something went wrong")},
   meta : {None, Some("meta-A")}]

ServerError(props) ==
  [tag |-> "ServerError",
   message |-> props.message,
   code |-> OrDefault(props.code, "GENERIC_ERROR"),
   status |-> OrDefault(props.status, INTERNAL_SERVER_ERROR),
   uiMessage |-> props.uiMessage,
   meta |-> props.meta]

\* toJSON that also serializes meta
toJSON_WithMeta(e) ==
  [message |-> e.message,
   code |-> e.code,
   status |-> e.status,
   uiMessage |-> e.uiMessage,
   meta |-> e.meta]

\* toJSON with message and code mixed up
toJSON_SwapsCodeAndMessage(e) ==
  [message |-> e.code,
   code |-> e.message,
   status |-> e.status,
   uiMessage |-> e.uiMessage]

toJSON(e) ==
  [message |-> e.message,
   code |-> e.code,
   status |-> e.status,
   uiMessage |-> e.uiMessage]

(***************************************************************************)
(* Values a handler, a schema or a parser can throw or return              *)
(***************************************************************************)
ZodError(msg) == [tag |-> "ZodError", message |-> msg]
PlainError(msg) == [tag |-> "Error", message |-> msg]

\* thrown values that are not instances of Error
NonErrorValues ==
  { [tag |-> "string", content |-> "String error"],
    [tag |-> "number", content |-> "42"],
    [tag |-> "object", content |-> "secret"],
    [tag |-> "null"],
    [tag |-> "undefined"] }

IsServerError(x) == x.tag = "ServerError"
IsZodError(x) == x.tag = "ZodError"
\* ServerError and ZodError both extend Error
IsError(x) == x.tag \in {"ServerError", "ZodError", "Error"}
IsNullish(x) == x.tag \in {"null", "undefined"}

ThrownServerErrors == { ServerError(p) : p \in ServerErrorProps }

HandlerThrows ==
  ThrownServerErrors
    \cup { ZodError("Invalid input: thrown by handler"), PlainError("Test error"),
           PlainError("") }
    \cup NonErrorValues

(***************************************************************************)
(* parseServerError                                                        *)
(***************************************************************************)
UNPROCESSABLE_ENTITY == 422

\* The ServerError a custom parser builds (docs: "parseServerError Usage")
ParserError ==
  ServerError([message |-> "Parsed by custom parser",
               code |-> Some("PARSED"),
               status |-> Some(UNPROCESSABLE_ENTITY),
               uiMessage |-> Some("Custom error occurred."),
               meta |-> None])

\* options.parser: absent, or one of these user callbacks:
\*   "null"    returns null for everything
\*   "nonSE"   returns a value that is not a ServerError
\*   "all"     returns ParserError for everything
\*   "errOnly" returns ParserError for plain Errors, null otherwise
\*   "derefs"  reads a property of the thrown value (throws TypeError on
\*             null / undefined), returns null otherwise
ParserModes == {"none", "null", "nonSE", "all", "errOnly", "derefs"}

ParserThrows(parser, error) == parser = "derefs" /\ IsNullish(error)

\* parser?.(error)
ParserApply(parser, error) ==
  CASE parser = "none" -> [tag |-> "undefined"]
    [] parser = "null" -> [tag |-> "null"]
    [] parser = "nonSE" -> [tag |-> "object", content |-> "not a ServerError"]
    [] parser = "all" -> ParserError
    [] parser = "errOnly" ->
         IF error.tag = "Error" THEN ParserError ELSE [tag |-> "null"]
    [] parser = "derefs" -> [tag |-> "null"]

ParseServerErrorOptions ==
  [defaultMessage : {None, Some("Custom default message")},
   defaultCode : {None, Some("CUSTOM_CODE")},
   defaultStatus : {None, Some(BAD_GATEWAY)},
   defaultUiMessage : {None, Some("Custom UI message")},
   parser : ParserModes]

defaultOptions ==
  [defaultMessage |-> "An unexpected error occurred",
   defaultCode |-> "GENERIC_ERROR",
   defaultStatus |-> INTERNAL_SERVER_ERROR,
   defaultUiMessage |-> "An unexpected error occurred"]

\* the destructured parameter: options is None (parameter default) or
\* Some(record) whose undefined fields take the destructuring defaults
Resolved(options) ==
  IF options = None
    THEN [defaultMessage |-> defaultOptions.defaultMessage,
          defaultCode |-> defaultOptions.defaultCode,
          defaultStatus |-> defaultOptions.defaultStatus,
          defaultUiMessage |-> defaultOptions.defaultUiMessage,
          parser |-> "none"]
    ELSE [defaultMessage |->
            OrDefault(options[1].defaultMessage, defaultOptions.defaultMessage),
          defaultCode |->
            OrDefault(options[1].defaultCode, defaultOptions.defaultCode),
          defaultStatus |->
            OrDefault(options[1].defaultStatus, defaultOptions.defaultStatus),
          defaultUiMessage |->
            OrDefault(options[1].defaultUiMessage, defaultOptions.defaultUiMessage),
          parser |-> options[1].parser]

\* the value thrown out of parseServerError when the parser itself throws
ParserException == PlainError("Cannot read properties of null")

parseServerErrorThrows(error, options) ==
  ParserThrows(Resolved(options).parser, error)

\* parseServerError without the pass-through of a thrown ServerError
parseServerError_NoPassThrough(error, options) ==
  LET o == Resolved(options)
      customError == ParserApply(o.parser, error)
      Synth(m, c, st) ==
        ServerError([message |-> m, code |-> Some(c), status |-> Some(st),
                     uiMessage |-> Some(o.defaultUiMessage), meta |-> None])
  IN IF IsServerError(customError) THEN customError
     ELSE IF FALSE THEN error
     ELSE IF IsZodError(error)
       THEN Synth(error.message, "VALIDATION_ERROR", BAD_REQUEST)
     ELSE IF IsError(error)
       THEN Synth(error.message, o.defaultCode, o.defaultStatus)
     ELSE Synth(o.defaultMessage, o.defaultCode, o.defaultStatus)

\* parseServerError putting String(error) of a non-Error value into the message
parseServerError_LeaksThrown(error, options) ==
  LET o == Resolved(options)
      customError == ParserApply(o.parser, error)
      Synth(m, c, st) ==
        ServerError([message |-> m, code |-> Some(c), status |-> Some(st),
                     uiMessage |-> Some(o.defaultUiMessage), meta |-> None])
  IN IF IsServerError(customError) THEN customError
     ELSE IF IsServerError(error) THEN error
     ELSE IF IsZodError(error)
       THEN Synth(error.message, "VALIDATION_ERROR", BAD_REQUEST)
     ELSE IF IsError(error)
       THEN Synth(error.message, o.defaultCode, o.defaultStatus)
     ELSE Synth((IF "content" \in DOMAIN error THEN error.content ELSE error.tag), o.defaultCode, o.defaultStatus)

\* parseServerError testing the thrown value before the parser result
parseServerError_ThrownBeforeParser(error, options) ==
  LET o == Resolved(options)
      customError == ParserApply(o.parser, error)
      Synth(m, c, st) ==
        ServerError([message |-> m, code |-> Some(c), status |-> Some(st),
                     uiMessage |-> Some(o.defaultUiMessage), meta |-> None])
  IN IF IsServerError(error) THEN error
     ELSE IF IsServerError(customError) THEN customError
     ELSE IF IsZodError(error)
       THEN Synth(error.message, "VALIDATION_ERROR", BAD_REQUEST)
     ELSE IF IsError(error)
       THEN Synth(error.message, o.defaultCode, o.defaultStatus)
     ELSE Synth(o.defaultMessage, o.defaultCode, o.defaultStatus)

\* parseServerError replacing the message of a generic Error by defaultMessage
parseServerError_DefaultMessageForErrors(error, options) ==
  LET o == Resolved(options)
      customError == ParserApply(o.parser, error)
      Synth(m, c, st) ==
        ServerError([message |-> m, code |-> Some(c), status |-> Some(st),
                     uiMessage |-> Some(o.defaultUiMessage), meta |-> None])
  IN IF IsServerError(customError) THEN customError
     ELSE IF IsServerError(error) THEN error
     ELSE IF IsZodError(error)
       THEN Synth(error.message, "VALIDATION_ERROR", BAD_REQUEST)
     ELSE IF IsError(error)
       THEN Synth(o.defaultMessage, o.defaultCode, o.defaultStatus)
     ELSE Synth(o.defaultMessage, o.defaultCode, o.defaultStatus)

parseServerError(error, options) ==
  LET o == Resolved(options)
      customError == ParserApply(o.parser, error)
  IN IF IsServerError(customError) THEN customError
     ELSE IF IsServerError(error) THEN error
     ELSE IF IsZodError(error) THEN
       ServerError([message |-> error.message,
                    code |-> Some("VALIDATION_ERROR"),
                    status |-> Some(BAD_REQUEST),
                    uiMessage |-> Some(o.defaultUiMessage),
                    meta |-> None])
     ELSE IF IsError(error) THEN
       ServerError([message |-> error.message,
                    code |-> Some(o.defaultCode),
                    status |-> Some(o.defaultStatus),
                    uiMessage |-> Some(o.defaultUiMessage),
                    meta |-> None])
     ELSE
       ServerError([message |-> o.defaultMessage,
                    code |-> Some(o.defaultCode),
                    status |-> Some(o.defaultStatus),
                    uiMessage |-> Some(o.defaultUiMessage),
                    meta |-> None])

(***************************************************************************)
(* Schemas and validateInput                                               *)
(***************************************************************************)
\* "input" is the single validationSchema of makeServerAction and of
\* makeApiController(request, input); query / body / params are the three
\* slots of the multi-schema controller.
Slots == {"input", "query", "body", "params"}
MultiSlots == {"query", "body", "params"}

\* What a caller can send in one slot, by what the slot's schema makes of it:
\*   "valid"      accepted unchanged
\*   "coercible"  accepted, the schema returns a coerced value
\*   "invalid"    rejected with a ZodError
\*   "explosive"  a transform / refinement of the schema throws a plain Error
RawInputs == {"valid", "coercible", "invalid", "explosive"}

ZodMessage(slot) ==
  CASE slot = "input" -> "Invalid input: input"
    [] slot = "query" -> "Invalid input: query"
    [] slot = "body" -> "Invalid input: body"
    [] slot = "params" -> "Invalid input: params"

\* schema.parse(input) of the schema registered for a slot
SchemaParse(slot, input) ==
  CASE input = "valid" -> [ok |-> TRUE, data |-> input]
    [] input = "coercible" -> [ok |-> TRUE, data |-> "coerced"]
    [] input = "invalid" -> [ok |-> FALSE, thrown |-> ZodError(ZodMessage(slot))]
    [] input = "explosive" -> [ok |-> FALSE, thrown |-> PlainError("transform failed")]

\* validateInput replacing a falsy input by an empty object
validateInput_DropsFalsy(input, schema) ==
  IF schema = None
    THEN [isValid |-> TRUE,
          data |-> IF input \in {"null", "undefined"} THEN "{}" ELSE input]
    ELSE LET r == SchemaParse(schema[1], input)
         IN IF r.ok
              THEN [isValid |-> TRUE, data |-> r.data]
              ELSE [isValid |-> FALSE,
                    error |-> toJSON(parseServerError(r.thrown, None))]

\* validateInput leaving the raw input in a failed result
validateInput_KeepsData(input, schema) ==
  IF schema = None
    THEN [isValid |-> TRUE, data |-> input]
    ELSE LET r == SchemaParse(schema[1], input)
         IN IF r.ok
              THEN [isValid |-> TRUE, data |-> r.data]
              ELSE [isValid |-> FALSE, data |-> input,
                    error |-> toJSON(parseServerError(r.thrown, None))]

\* schema is None or Some(slot): the schema registered for that slot
validateInput(input, schema) ==
  IF schema = None
    THEN [isValid |-> TRUE, data |-> input]
    ELSE LET r == SchemaParse(schema[1], input)
         IN IF r.ok
              THEN [isValid |-> TRUE, data |-> r.data]
              ELSE [isValid |-> FALSE,
                    error |-> toJSON(parseServerError(r.thrown, None))]

(***************************************************************************)
(* handleError: the value it returns; its logger call is in the actions    *)
(***************************************************************************)
handleError(error, options) == toJSON(parseServerError(error, options.error))

\* (options?.logger || defaultLogger)
LoggerOf(options) == OrDefault(options.logger, "defaultLogger")

(***************************************************************************)
(* Responses                                                               *)
(***************************************************************************)
\* JavaScript's  x || d  on a status number
OrElse(x, d) == IF x = 0 THEN d ELSE x

\* JSON.stringify writing null for an undefined uiMessage
JsonError_NullForUndefined(json) ==
  [message |-> json.message, code |-> json.code, status |-> json.status,
   uiMessage |-> IF json.uiMessage = None THEN "null" ELSE json.uiMessage[1]]

\* JSON.stringify of a serialized error: an undefined uiMessage is dropped
JsonError(json) ==
  IF json.uiMessage = None
    THEN [message |-> json.message, code |-> json.code, status |-> json.status]
    ELSE [message |-> json.message, code |-> json.code, status |-> json.status,
          uiMessage |-> json.uiMessage[1]]

\* Response.json(error, { status })
ErrorResponse(json, status) == [status |-> status, body |-> JsonError(json)]

\* Response.json(result, { status }): the handler results of the model are
\* plain JSON objects without undefined members
ResultResponse(result, status) == [status |-> status, body |-> result]

\* async-xtate
makeAsyncSuccessState(data) == [status |-> "success", data |-> data]
makeAsyncErrorState(error) == [status |-> "error", error |-> error]

(***************************************************************************)
(* The dispatch: makeServerAction and makeApiController                    *)
(***************************************************************************)
VARIABLES
  kind,          \* "action" (makeServerAction) or "controller" (makeApiController)
  options,       \* the options registered at setup time
  raw,           \* the raw input of the call, per slot
  pc,            \* "idle", "validating", "awaiting", "done", "failed", "rejected"
  pending,       \* the configured slots not validated yet, in validation order
  validated,     \* the validateInput results so far, in the order they ran
  handlerCalls,  \* the argument lists the handler was invoked with
  returned,      \* the value the handler resolved with
  thrown,        \* the value the handler threw
  parsed,        \* the ServerError parseServerError returned in the catch block
  logCalls,      \* the calls of logger.error
  response,      \* the Response / AsyncState the callable resolved with
  rejection,     \* the value the callable's promise rejected with
  call,          \* a direct call of a helper: its arguments and its outcome
  parked,        \* the invocation of the same dispatcher that is not running
  loggers,       \* the config of each Logger instance
  arrays,        \* the transports arrays the configs refer to
  logs,          \* what each MockTransport recorded
  lastCall,      \* the last operation on a logger, with the state before it
  fs,            \* the size of the log file and of its rotated files
  transport,     \* the FileTransport: its options and currentSize
  tasks,         \* the position of each FileTransport.log call in flight
  fsLog          \* the renames and unlinks the rotations performed

vars == <<kind, options, raw, pc, pending, validated, handlerCalls, returned,
          thrown, parsed, logCalls, response, rejection, call, parked,
          loggers, arrays, logs, lastCall, fs, transport, tasks, fsLog>>

loggerVars == <<loggers, arrays, logs, lastCall>>
fileVars == <<fs, transport, tasks, fsLog>>

Kinds == {"action", "controller"}

\* no helper is called directly
NoCall == [request |-> [fn |-> "none"], result |-> None]

\* the dispatcher is invoked once
NoInvocation == [id |-> 0]

\* no Logger is constructed
NoLoggers ==
  /\ loggers = <<>>
  /\ arrays = <<>>
  /\ logs = <<>>
  /\ lastCall = [op |-> "none"]

\* no FileTransport is constructed
NoFiles ==
  /\ fs = <<>>
  /\ transport = [options |-> None]
  /\ tasks = <<>>
  /\ fsLog = <<>>

\* which schemas a dispatcher can be set up with
SchemaConfigs(k) ==
  IF k = "action"
    THEN {{}, {"input"}}
    ELSE {{}, {"input"}} \cup (SUBSET MultiSlots \ {{}})

CommonHandlerOptions(k) ==
  [schemas : SchemaConfigs(k),
   error : {None} \cup { Some(e) : e \in ParseServerErrorOptions },
   logger : {None, Some("customLogger")}]

\* the body validated before the query
GateOrder_BodyFirst == <<"input", "body", "query", "params">>

\* the order in which the configured slots are validated
GateOrder == <<"input", "query", "body", "params">>

InSchemas(s) == s \in options.schemas

\* the raw inputs of one call: the slots of the other controller flavour
\* carry nothing
RawChoices ==
  { r \in [Slots -> RawInputs] :
      \A s \in Slots :
        (IF options.schemas \subseteq {"input"} THEN s # "input" ELSE s = "input")
          => r[s] = "valid" }

Context == [request |-> "request"]

\* the raw input handed on instead of the parsed value
DataOf_Raw(slot) == raw[slot]

DataOf(slot) ==
  LET i == CHOOSE j \in DOMAIN validated : validated[j].slot = slot
  IN validated[i].result.data

\* the argument object of the multi-schema controller
DispatchArguments == [s \in options.schemas |-> DataOf(s)]

\* the handler always handed a first argument, configured or not
HandlerArgs_AlwaysProps ==
  IF kind = "action"
    THEN IF "input" \in options.schemas THEN <<DataOf("input")>> ELSE <<raw["input"]>>
    ELSE IF options.schemas = {} THEN <<raw["input"], Context>>
         ELSE IF "input" \in options.schemas THEN <<DataOf("input"), Context>>
         ELSE <<[s \in MultiSlots |->
                  IF s \in options.schemas THEN DataOf(s) ELSE raw[s]], Context>>

\* the argument list the handler is invoked with
HandlerArgs ==
  IF kind = "action"
    THEN IF "input" \in options.schemas THEN <<DataOf("input")>> ELSE <<>>
    ELSE IF options.schemas = {} THEN <<Context>>
         ELSE IF "input" \in options.schemas THEN <<DataOf("input"), Context>>
         ELSE <<DispatchArguments, Context>>

\* what a handler can resolve with
HandlerResults ==
  { [message |-> "success"],
    [data |-> [message |-> "default status"]],
    [data |-> [message |-> "created"], status |-> CREATED],
    [data |-> [message |-> "no content"], status |-> NO_CONTENT],
    [data |-> [null |-> TRUE], status |-> NO_CONTENT] }

\* the response to a failed validation
ValidationFailure(error) ==
  IF kind = "action"
    THEN makeAsyncErrorState(error)
    ELSE ErrorResponse(error, OrElse(error.status, BAD_REQUEST))

\* the response to a value the handler resolved with
Success(result) ==
  IF kind = "action"
    THEN makeAsyncSuccessState(result)
    ELSE ResultResponse(result, OK)

\* the catch block answering 500 whatever the error's status
Caught_Always500(parsedError) ==
  IF kind = "action"
    THEN makeAsyncErrorState(parsedError)
    ELSE ErrorResponse(parsedError, INTERNAL_SERVER_ERROR)

\* the response built in the catch block
Caught(parsedError) ==
  IF kind = "action"
    THEN makeAsyncErrorState(parsedError)
    ELSE ErrorResponse(parsedError, OrElse(parsedError.status, INTERNAL_SERVER_ERROR))

Init ==
  /\ kind \in Kinds
  /\ options \in CommonHandlerOptions(kind)
  /\ raw = [s \in Slots |-> "valid"]
  /\ pc = "idle"
  /\ pending = <<>>
  /\ validated = <<>>
  /\ handlerCalls = <<>>
  /\ returned = None
  /\ thrown = None
  /\ parsed = None
  /\ logCalls = <<>>
  /\ response = None
  /\ rejection = None
  /\ call = NoCall
  /\ parked = NoInvocation
  /\ NoLoggers
  /\ NoFiles

\* the callable is called with its inputs
Start ==
  /\ pc = "idle"
  /\ raw' \in RawChoices
  /\ pending' = SelectSeq(GateOrder, InSchemas)
  /\ pc' = "validating"
  /\ UNCHANGED <<parked, loggerVars, fileVars, call, kind, options, validated, handlerCalls, returned, thrown,
                 parsed, logCalls, response, rejection>>

\* a gate that invokes the handler with the raw input when validation fails
Gate_InvokesAnyway ==
  /\ pc = "validating"
  /\ pending # <<>>
  /\ LET slot == Head(pending)
         validation == validateInput(raw[slot], Some(slot))
     IN /\ validated' = Append(validated, [slot |-> slot, result |-> validation])
        /\ IF validation.isValid
             THEN /\ pending' = Tail(pending)
                  /\ UNCHANGED <<pc, handlerCalls>>
             ELSE /\ pc' = "awaiting"
                  /\ handlerCalls' = Append(handlerCalls, <<raw[slot]>>)
                  /\ UNCHANGED pending
  /\ UNCHANGED <<parked, loggerVars, fileVars, call, kind, options, raw,
                 returned, thrown, parsed, logCalls, response, rejection>>

\* validateInput of the next configured slot; a failure is returned at once
Gate ==
  /\ pc = "validating"
  /\ pending # <<>>
  /\ LET slot == Head(pending)
         validation == validateInput(raw[slot], Some(slot))
     IN /\ validated' = Append(validated, [slot |-> slot, result |-> validation])
        /\ IF validation.isValid
             THEN /\ pending' = Tail(pending)
                  /\ UNCHANGED <<pc, response>>
             ELSE /\ pc' = "failed"
                  /\ response' = Some(ValidationFailure(validation.error))
                  /\ UNCHANGED pending
  /\ UNCHANGED <<parked, loggerVars, fileVars, call, kind, options, raw, handlerCalls, returned, thrown, parsed,
                 logCalls, rejection>>

\* every configured slot passed: the handler is invoked and awaited
Invoke ==
  /\ pc = "validating"
  /\ pending = <<>>
  /\ handlerCalls' = Append(handlerCalls, HandlerArgs)
  /\ pc' = "awaiting"
  /\ UNCHANGED <<parked, loggerVars, fileVars, call, kind, options, raw, pending, validated, returned, thrown,
                 parsed, logCalls, response, rejection>>

\* the handler's promise resolves
SettleReturn ==
  /\ pc = "awaiting"
  /\ \E result \in HandlerResults :
       /\ returned' = Some(result)
       /\ response' = Some(Success(result))
  /\ pc' = "done"
  /\ UNCHANGED <<parked, loggerVars, fileVars, call, kind, options, raw, pending, validated, handlerCalls, thrown,
                 parsed, logCalls, rejection>>

\* the handler throws or its promise rejects: the catch block
SettleThrow ==
  /\ pc = "awaiting"
  /\ \E error \in HandlerThrows :
       /\ thrown' = Some(error)
       /\ IF parseServerErrorThrows(error, options.error)
            THEN /\ pc' = "rejected"
                 /\ rejection' = Some(ParserException)
                 /\ UNCHANGED <<parsed, logCalls, response>>
            ELSE LET parsedError == handleError(error, options)
                 IN /\ parsed' = Some(parseServerError(error, options.error))
                    /\ logCalls' = Append(logCalls,
                          [logger |-> LoggerOf(options),
                           message |-> parsedError.message,
                           payload |-> parsedError])
                    /\ response' = Some(Caught(parsedError))
                    /\ pc' = "failed"
                    /\ UNCHANGED rejection
  /\ UNCHANGED <<parked, loggerVars, fileVars, call, kind, options, raw, pending, validated, handlerCalls, returned>>

Next == Start \/ Gate \/ Invoke \/ SettleReturn \/ SettleThrow

Spec == Init /\ [][Next]_vars

(***************************************************************************)
(* The helpers called directly: validateInput by application code and the  *)
(* tests, the fetcher of the client hooks with the AsyncState of an action *)
(***************************************************************************)

\* values a caller can hand to validateInput when no schema is given
UnvalidatedInputs == RawInputs \cup {"null", "undefined", "42"}

\* the AsyncState values the fetcher can receive from an action
ActionResults ==
  { makeAsyncErrorState(toJSON(e)) : e \in ThrownServerErrors }
    \cup { makeAsyncSuccessState(r) : r \in HandlerResults }
    \cup { [status |-> "idle"] }

\* makeServerActionImmutableHook and makeServerActionMutationHook
Hooks == {"immutable", "mutation"}

Requests ==
  { [fn |-> "validateInput", input |-> i, schema |-> None] :
      i \in UnvalidatedInputs }
    \cup { [fn |-> "validateInput", input |-> i, schema |-> Some(s)] :
             i \in RawInputs, s \in Slots }
    \cup { [fn |-> "fetcher", hook |-> h, result |-> r] :
             h \in Hooks, r \in ActionResults }
    \cup { [fn |-> "parseServerError", error |-> e, options |-> o] :
             e \in HandlerThrows,
             o \in {None} \cup { Some(x) : x \in ParseServerErrorOptions } }

\* new ServerError(result.error): the members the constructor reads from a
\* serialized error
FromJSON(json) ==
  [message |-> json.message,
   code |-> Some(json.code),
   status |-> Some(json.status),
   uiMessage |-> json.uiMessage,
   meta |-> None]

\* a fetcher that hands on whatever data an envelope without error has
fetcher_ReturnsUnlessError(result) ==
  IF result.status = "error"
    THEN [threw |-> TRUE, error |-> ServerError(FromJSON(result.error))]
    ELSE [threw |-> FALSE,
          data |-> IF "data" \in DOMAIN result THEN result.data
                                               ELSE [undefined |-> TRUE]]

\* the fetcher of useAction: throws the error of a failed action, resolves
\* with the data of a successful one
fetcher(result) ==
  IF result.status = "error"
    THEN [threw |-> TRUE, error |-> ServerError(FromJSON(result.error))]
    ELSE IF result.status # "success"
      THEN [threw |-> TRUE,
            error |-> ServerError([message |-> "Unknown error",
                                   code |-> Some("UNKNOWN_ERROR"),
                                   status |-> None,
                                   uiMessage |-> None,
                                   meta |-> None])]
      ELSE [threw |-> FALSE, data |-> result.data]

InitCalls ==
  /\ kind = "action"
  /\ options = [schemas |-> {}, error |-> None, logger |-> None]
  /\ raw = [s \in Slots |-> "valid"]
  /\ pc = "idle"
  /\ pending = <<>>
  /\ validated = <<>>
  /\ handlerCalls = <<>>
  /\ returned = None
  /\ thrown = None
  /\ parsed = None
  /\ logCalls = <<>>
  /\ response = None
  /\ rejection = None
  /\ call \in [request : Requests, result : {None}]
  /\ parked = NoInvocation
  /\ NoLoggers
  /\ NoFiles

CallValidateInput ==
  /\ call.request.fn = "validateInput"
  /\ call.result = None
  /\ call' = [call EXCEPT !.result =
                 Some(validateInput(call.request.input, call.request.schema))]
  /\ UNCHANGED <<kind, options, raw, pc, pending, validated, handlerCalls,
                 returned, thrown, parsed, logCalls, response, rejection,
                 parked, loggerVars, fileVars>>

CallFetcher ==
  /\ call.request.fn = "fetcher"
  /\ call.result = None
  /\ call' = [call EXCEPT !.result = Some(fetcher(call.request.result))]
  /\ UNCHANGED <<kind, options, raw, pc, pending, validated, handlerCalls,
                 returned, thrown, parsed, logCalls, response, rejection,
                 parked, loggerVars, fileVars>>

CallParseServerError ==
  /\ call.request.fn = "parseServerError"
  /\ call.result = None
  /\ call' = [call EXCEPT !.result =
        Some(IF parseServerErrorThrows(call.request.error, call.request.options)
               THEN [threw |-> TRUE, error |-> ParserException]
               ELSE [threw |-> FALSE,
                     value |-> parseServerError(call.request.error,
                                                call.request.options)])]
  /\ UNCHANGED <<kind, options, raw, pc, pending, validated, handlerCalls,
                 returned, thrown, parsed, logCalls, response, rejection,
                 parked, loggerVars, fileVars>>

NextCalls == CallValidateInput \/ CallFetcher \/ CallParseServerError

SpecCalls == InitCalls /\ [][NextCalls]_vars

(***************************************************************************)
(* Logger, RequestLogger.  Entries carry no timestamp: new Date() plays no *)
(* part in filtering, routing or the fields the callers read.              *)
(***************************************************************************)

LogLevels == {"ERROR", "WARN", "INFO", "DEBUG", "TRACE"}

\* the priority table read the wrong way round
LOG_LEVEL_PRIORITY_Reversed ==
  [ERROR |-> 4, WARN |-> 3, INFO |-> 2, DEBUG |-> 1, TRACE |-> 0]

LOG_LEVEL_PRIORITY ==
  [ERROR |-> 0, WARN |-> 1, INFO |-> 2, DEBUG |-> 3, TRACE |-> 4]

LoggerIds == {"logger", "childLogger", "requestLogger"}
Transports == {"ConsoleTransport", "mockTransport", "otherTransport"}
Formatters == {"PrettyFormatter", "JsonFormatter", "SimpleFormatter"}

\* how many operations on the loggers one behaviour performs
MaxOps == 3

\* formatter.format(entry): the pretty and simple lines carry level,
\* context and message, the JSON line every member of the entry
format(formatter, entry) ==
  IF formatter = "JsonFormatter"
    THEN [formatter |-> formatter, level |-> entry.level,
          message |-> entry.message, context |-> entry.context,
          requestId |-> entry.requestId, metadata |-> entry.metadata]
    ELSE [formatter |-> formatter, level |-> entry.level,
          message |-> entry.message, context |-> entry.context]

\* new Logger(config): the config it keeps and the arrays that exist
\* afterwards; a transports array that is handed in is kept by reference
Logger(config, heap) ==
  [config |->
     [level |-> OrDefault(config.level, "INFO"),
      context |-> OrDefault(config.context, <<"APP">>),
      formatter |-> OrDefault(config.formatter, "PrettyFormatter"),
      transports |-> OrDefault(config.transports, Len(heap) + 1),
      includeContext |-> OrDefault(config.includeContext, TRUE),
      includeMetadata |-> OrDefault(config.includeMetadata, TRUE)],
   heap |-> IF config.transports = None
              THEN Append(heap, <<"ConsoleTransport">>)
              ELSE heap]

\* logger.child(context): new Logger({ ...this.config, context })
child(config, context, heap) ==
  Logger([level |-> Some(config.level),
          context |-> Some(Append(config.context, context)),
          formatter |-> Some(config.formatter),
          transports |-> Some(config.transports),
          includeContext |-> Some(config.includeContext),
          includeMetadata |-> Some(config.includeMetadata)], heap)

\* no filtering at all
shouldLog_Always(config, level) == TRUE

shouldLog(config, level) ==
  LOG_LEVEL_PRIORITY[level] <= LOG_LEVEL_PRIORITY[config.level]

\* the entry writeLog builds
LogEntry(config, level, message, metadata, requestId) ==
  [level |-> level,
   message |-> message,
   context |-> IF config.includeContext THEN Some(config.context) ELSE None,
   metadata |-> IF config.includeMetadata THEN metadata ELSE None,
   requestId |-> IF requestId # None /\ requestId[1] # "" THEN requestId ELSE None]

\* how often a transport occurs in a transports array
Occurrences(t, array) == Cardinality({ i \in DOMAIN array : array[i] = t })

\* writeLog: what the transports have recorded afterwards
writeLog(config, level, message, metadata, requestId) ==
  IF ~shouldLog(config, level)
    THEN logs
    ELSE LET entry == LogEntry(config, level, message, metadata, requestId)
             item == [message |-> format(config.formatter, entry), entry |-> entry]
         IN [t \in Transports |->
               logs[t] \o [i \in 1..Occurrences(t, arrays[config.transports]) |-> item]]

\* the state an operation starts from
Before == [loggers |-> loggers, arrays |-> arrays, logs |-> logs]

Constructed(l) == loggers[l] # None

\* beforeEach of the tests / server-logger: a logger and its RequestLogger
InitLogger ==
  /\ \E level \in {None, Some("DEBUG"), Some("ERROR")} :
     \E given \in {None, Some(1)} :
       LET root == Logger([level |-> level, context |-> Some(<<"TEST">>),
                           formatter |-> None, transports |-> given,
                           includeContext |-> None, includeMetadata |-> None],
                          IF given = None THEN <<>> ELSE << <<"mockTransport">> >>)
           request == child(root.config, "REQUEST", root.heap)
       IN /\ loggers = [l \in LoggerIds |->
                          CASE l = "logger" -> Some(root.config)
                            [] l = "requestLogger" -> Some(request.config)
                            [] OTHER -> None]
          /\ arrays = request.heap
  /\ logs = [t \in Transports |-> <<>>]
  /\ lastCall = [op |-> "new", n |-> 0]
  /\ NoFiles
  /\ kind = "action"
  /\ options = [schemas |-> {}, error |-> None, logger |-> None]
  /\ raw = [s \in Slots |-> "valid"]
  /\ pc = "idle"
  /\ pending = <<>>
  /\ validated = <<>>
  /\ handlerCalls = <<>>
  /\ returned = None
  /\ thrown = None
  /\ parsed = None
  /\ logCalls = <<>>
  /\ response = None
  /\ rejection = None
  /\ call = NoCall
  /\ parked = NoInvocation

\* what no operation on a logger touches
LoggerFrame ==
  UNCHANGED <<kind, options, raw, pc, pending, validated, handlerCalls,
              returned, thrown, parsed, logCalls, response, rejection, call,
              parked, fileVars>>

\* logger.error / warn / info / debug / trace
Log ==
  /\ lastCall.n < MaxOps
  /\ \E l \in LoggerIds, level \in LogLevels, requestId \in {None, Some("req_123")} :
       /\ Constructed(l)
       /\ logs' = writeLog(loggers[l][1], level, [text |-> "message"], None, requestId)
       /\ lastCall' = [op |-> "log", n |-> lastCall.n + 1, logger |-> l,
                        level |-> level, requestId |-> requestId, before |-> Before]
  /\ UNCHANGED <<loggers, arrays>>
  /\ LoggerFrame

\* logger.child('CHILD')
Child ==
  /\ lastCall.n < MaxOps
  /\ ~Constructed("childLogger")
  /\ LET made == child(loggers["logger"][1], "CHILD", arrays)
     IN /\ loggers' = [loggers EXCEPT !["childLogger"] = Some(made.config)]
        /\ arrays' = made.heap
  /\ lastCall' = [op |-> "child", n |-> lastCall.n + 1, logger |-> "logger",
                   before |-> Before]
  /\ UNCHANGED logs
  /\ LoggerFrame

SetLevel ==
  /\ lastCall.n < MaxOps
  /\ \E l \in {"logger", "childLogger"}, level \in LogLevels :
       /\ Constructed(l)
       /\ loggers' = [loggers EXCEPT ![l] = Some([@[1] EXCEPT !.level = level])]
       /\ lastCall' = [op |-> "setLevel", n |-> lastCall.n + 1, logger |-> l,
                        level |-> level, before |-> Before]
  /\ UNCHANGED <<arrays, logs>>
  /\ LoggerFrame

SetFormatter ==
  /\ lastCall.n < MaxOps
  /\ \E l \in {"logger", "childLogger"}, formatter \in Formatters :
       /\ Constructed(l)
       /\ loggers' = [loggers EXCEPT ![l] = Some([@[1] EXCEPT !.formatter = formatter])]
       /\ lastCall' = [op |-> "setFormatter", n |-> lastCall.n + 1, logger |-> l,
                        formatter |-> formatter, before |-> Before]
  /\ UNCHANGED <<arrays, logs>>
  /\ LoggerFrame

\* this.config.transports.push(transport)
AddTransport ==
  /\ lastCall.n < MaxOps
  /\ \E l \in {"logger", "childLogger"}, t \in {"mockTransport", "otherTransport"} :
       /\ Constructed(l)
       /\ arrays' = [arrays EXCEPT ![loggers[l][1].transports] = Append(@, t)]
       /\ lastCall' = [op |-> "addTransport", n |-> lastCall.n + 1, logger |-> l,
                        transport |-> t, before |-> Before]
  /\ UNCHANGED <<loggers, logs>>
  /\ LoggerFrame

\* generateRequestId: the clock and Math.random pick it
RequestIds == {"req_1_abc", "req_2_xyz"}

\* RequestLogger.logRequest
LogRequest ==
  /\ lastCall.n < MaxOps
  /\ \E requestId \in RequestIds :
       /\ logs' = writeLog(loggers["requestLogger"][1], "INFO",
                           [text |-> "Incoming", method |-> "GET", url |-> "/api/users?page=1"],
                           Some([requestData |-> "requestData"]), Some(requestId))
       /\ lastCall' = [op |-> "logRequest", n |-> lastCall.n + 1,
                        logger |-> "requestLogger", returned |-> requestId,
                        before |-> Before]
  /\ UNCHANGED <<loggers, arrays>>
  /\ LoggerFrame

\* RequestLogger.logResponse
LogResponse ==
  /\ lastCall.n < MaxOps
  /\ \E requestId \in {"test-request-id", ""},
        statusCode \in {OK, NOT_FOUND, BAD_REQUEST, INTERNAL_SERVER_ERROR} :
       /\ logs' = writeLog(loggers["requestLogger"][1],
                           IF statusCode >= BAD_REQUEST THEN "WARN" ELSE "INFO",
                           [text |-> "Response", statusCode |-> statusCode],
                           Some([statusCode |-> statusCode]), Some(requestId))
       /\ lastCall' = [op |-> "logResponse", n |-> lastCall.n + 1,
                        logger |-> "requestLogger", requestId |-> requestId,
                        statusCode |-> statusCode, before |-> Before]
  /\ UNCHANGED <<loggers, arrays>>
  /\ LoggerFrame

NextLogger ==
  \/ Log \/ Child \/ SetLevel \/ SetFormatter \/ AddTransport
  \/ LogRequest \/ LogResponse

SpecLogger == InitLogger /\ [][NextLogger]_vars

(***************************************************************************)
(* FileTransport.  Every await of log() is a point where another log()     *)
(* call on the same transport can run; each file system call is atomic.    *)
(* fs[0] is the log file, fs[i] the rotated file filename.i; None marks a  *)
(* file that does not exist, Some(n) one of n bytes.                       *)
(***************************************************************************)

\* the maxFiles and maxFileSize options tried, the bytes of one log line,
\* the log() calls of one behaviour and how many can be in flight
MaxMaxFiles == 3
MaxMaxFileSize == 2
LineBytes == 1
MaxLogCalls == 6
MaxTasks == 2
MaxFilesChoices == 1..MaxMaxFiles
MaxFileSizeChoices == 1..MaxMaxFileSize
Tasks == 1..MaxTasks
FileIndexes == 0..MaxMaxFiles

FileTransportOptions ==
  [filename : {"app.log"},
   maxFileSize : MaxFileSizeChoices,
   maxFiles : MaxFilesChoices,
   autoCreate : {TRUE}]

Exists(i) == fs[i] # None

\* an operation of a rotation, with the log file as it was at that moment
FsEvent(op, index) == [op |-> op, index |-> index, main |-> fs[0]]

InitFile ==
  /\ fs = [i \in FileIndexes |-> None]
  /\ transport \in [options : { Some(o) : o \in FileTransportOptions },
                    currentSize : {0}, calls : {0}]
  /\ tasks = [t \in Tasks |-> [pc |-> "idle", i |-> 0]]
  /\ fsLog = [events |-> {}, overlapped |-> FALSE]
  /\ NoLoggers
  /\ kind = "action"
  /\ options = [schemas |-> {}, error |-> None, logger |-> None]
  /\ raw = [s \in Slots |-> "valid"]
  /\ pc = "idle"
  /\ pending = <<>>
  /\ validated = <<>>
  /\ handlerCalls = <<>>
  /\ returned = None
  /\ thrown = None
  /\ parsed = None
  /\ logCalls = <<>>
  /\ response = None
  /\ rejection = None
  /\ call = NoCall
  /\ parked = NoInvocation

\* what no step of the transport touches
FileFrame ==
  UNCHANGED <<kind, options, raw, pc, pending, validated, handlerCalls,
              returned, thrown, parsed, logCalls, response, rejection, call,
              parked, loggerVars>>

\* where the loop of rotateFiles goes once file i is dealt with
AfterIndex(i) ==
  IF i - 1 > 0 THEN [pc |-> "access", i |-> i - 1] ELSE [pc |-> "renameMain", i |-> 0]

\* log() is called
StartLog(t) ==
  /\ tasks[t].pc = "idle"
  /\ transport.calls < MaxLogCalls
  /\ transport' = [transport EXCEPT !.calls = @ + 1]
  /\ tasks' = [tasks EXCEPT ![t] =
       [pc |-> IF transport.options[1].autoCreate THEN "ensureDirectory" ELSE "stat",
        i |-> 0]]
  /\ fsLog' = [fsLog EXCEPT !.overlapped =
                 @ \/ \E u \in Tasks \ {t} : tasks[u].pc # "idle"]
  /\ UNCHANGED fs
  /\ FileFrame

\* ensureDirectory: the directory of the log file exists afterwards
EnsureDirectory(t) ==
  /\ tasks[t].pc = "ensureDirectory"
  /\ tasks' = [tasks EXCEPT ![t] = [pc |-> "stat", i |-> 0]]
  /\ UNCHANGED <<fs, transport, fsLog>>
  /\ FileFrame

\* checkRotation: fs.stat and the decision taken on its answer
CheckRotation(t) ==
  /\ tasks[t].pc = "stat"
  /\ IF ~Exists(0)
       THEN /\ transport' = [transport EXCEPT !.currentSize = 0]
            /\ tasks' = [tasks EXCEPT ![t] = [pc |-> "append", i |-> 0]]
       ELSE /\ transport' = [transport EXCEPT !.currentSize = fs[0][1]]
            /\ tasks' = [tasks EXCEPT ![t] =
                 IF fs[0][1] >= transport.options[1].maxFileSize
                   THEN AfterIndex(transport.options[1].maxFiles)
                   ELSE [pc |-> "append", i |-> 0]]
  /\ UNCHANGED <<fs, fsLog>>
  /\ FileFrame

\* rotateFiles: fs.access(oldFile)
Access(t) ==
  /\ tasks[t].pc = "access"
  /\ tasks' = [tasks EXCEPT ![t] =
       IF Exists(tasks[t].i) THEN [pc |-> "move", i |-> tasks[t].i]
                             ELSE AfterIndex(tasks[t].i)]
  /\ UNCHANGED <<fs, transport, fsLog>>
  /\ FileFrame

\* rotateFiles: fs.unlink of the oldest file, fs.rename of the others; a
\* file that vanished since fs.access makes the call throw, which is caught
Move(t) ==
  /\ tasks[t].pc = "move"
  /\ LET i == tasks[t].i
     IN IF ~Exists(i)
          THEN UNCHANGED <<fs, fsLog>>
          ELSE IF i = transport.options[1].maxFiles - 1
            THEN /\ fs' = [fs EXCEPT ![i] = None]
                 /\ fsLog' = [fsLog EXCEPT !.events = @ \cup {FsEvent("unlink", i)}]
            ELSE /\ fs' = [fs EXCEPT ![i + 1] = fs[i], ![i] = None]
                 /\ fsLog' = [fsLog EXCEPT !.events = @ \cup {FsEvent("rename", i)}]
  /\ tasks' = [tasks EXCEPT ![t] = AfterIndex(tasks[t].i)]
  /\ UNCHANGED transport
  /\ FileFrame

\* rotateFiles: fs.rename(filename, filename.1), then currentSize = 0
RenameMain(t) ==
  /\ tasks[t].pc = "renameMain"
  /\ IF Exists(0)
       THEN /\ fs' = [fs EXCEPT ![1] = fs[0], ![0] = None]
            /\ fsLog' = [fsLog EXCEPT !.events = @ \cup {FsEvent("rename", 0)}]
       ELSE UNCHANGED <<fs, fsLog>>
  /\ transport' = [transport EXCEPT !.currentSize = 0]
  /\ tasks' = [tasks EXCEPT ![t] = [pc |-> "append", i |-> 0]]
  /\ FileFrame

\* writeToFile: fs.appendFile creates the file if need be
WriteToFile(t) ==
  /\ tasks[t].pc = "append"
  /\ fs' = [fs EXCEPT ![0] = Some(OrDefault(fs[0], 0) + LineBytes)]
  /\ transport' = [transport EXCEPT !.currentSize = @ + LineBytes]
  /\ tasks' = [tasks EXCEPT ![t] = [pc |-> "idle", i |-> 0]]
  /\ UNCHANGED fsLog
  /\ FileFrame

NextFile ==
  \E t \in Tasks :
    \/ StartLog(t) \/ EnsureDirectory(t) \/ CheckRotation(t) \/ Access(t)
    \/ Move(t) \/ RenameMain(t) \/ WriteToFile(t)

SpecFile == InitFile /\ [][NextFile]_vars

(***************************************************************************)
(* Two invocations of the same dispatcher.  The callable is an async       *)
(* function: an invocation runs without interruption up to the await of    *)
(* the handler, where the other invocation can run.  The variables of one  *)
(* call hold the invocation that is running, parked holds the other one;   *)
(* kind and options are the closure both share, logCalls the shared logger *)
(***************************************************************************)

\* the local variables of the running invocation
Locals ==
  [raw |-> raw, pc |-> pc, pending |-> pending, validated |-> validated,
   handlerCalls |-> handlerCalls, returned |-> returned, thrown |-> thrown,
   parsed |-> parsed, response |-> response, rejection |-> rejection]

\* an invocation that has not been called yet
FreshLocals ==
  [raw |-> [s \in Slots |-> "valid"], pc |-> "idle", pending |-> <<>>,
   validated |-> <<>>, handlerCalls |-> <<>>, returned |-> None,
   thrown |-> None, parsed |-> None, response |-> None, rejection |-> None]

\* the points at which the event loop can run another invocation
Suspended(p) == p \in {"idle", "awaiting", "done", "failed", "rejected"}

\* the set-ups the two invocations are run against
ConcurrentOptions(k) ==
  { o \in CommonHandlerOptions(k) :
      /\ o.schemas \in {{}, {"input"}}
      /\ o.logger = None
      /\ o.error \in {None,
                      Some([defaultMessage |-> None, defaultCode |-> None,
                            defaultStatus |-> None, defaultUiMessage |-> None,
                            parser |-> "derefs"])} }

InitConcurrent ==
  /\ kind \in Kinds
  /\ options \in ConcurrentOptions(kind)
  /\ raw = FreshLocals.raw
  /\ pc = "idle"
  /\ pending = <<>>
  /\ validated = <<>>
  /\ handlerCalls = <<>>
  /\ returned = None
  /\ thrown = None
  /\ parsed = None
  /\ logCalls = <<>>
  /\ response = None
  /\ rejection = None
  /\ call = NoCall
  /\ parked = [id |-> 2, locals |-> FreshLocals]
  /\ NoLoggers
  /\ NoFiles

\* a switch that leaves the validation results where they are, as if they
\* were kept in a variable of the closure
Switch_SharesValidated ==
  /\ Suspended(pc)
  /\ parked.id # 0
  /\ parked' = [id |-> 3 - parked.id, locals |-> Locals]
  /\ raw' = parked.locals.raw
  /\ pc' = parked.locals.pc
  /\ pending' = parked.locals.pending
  /\ handlerCalls' = parked.locals.handlerCalls
  /\ returned' = parked.locals.returned
  /\ thrown' = parked.locals.thrown
  /\ parsed' = parked.locals.parsed
  /\ response' = parked.locals.response
  /\ rejection' = parked.locals.rejection
  /\ UNCHANGED <<kind, options, validated, logCalls, call, loggerVars, fileVars>>

\* the running invocation is suspended and the other one runs
Switch ==
  /\ Suspended(pc)
  /\ parked.id # 0
  /\ parked' = [id |-> 3 - parked.id, locals |-> Locals]
  /\ raw' = parked.locals.raw
  /\ pc' = parked.locals.pc
  /\ pending' = parked.locals.pending
  /\ validated' = parked.locals.validated
  /\ handlerCalls' = parked.locals.handlerCalls
  /\ returned' = parked.locals.returned
  /\ thrown' = parked.locals.thrown
  /\ parsed' = parked.locals.parsed
  /\ response' = parked.locals.response
  /\ rejection' = parked.locals.rejection
  /\ UNCHANGED <<kind, options, logCalls, call, loggerVars, fileVars>>

NextConcurrent == Start \/ Gate \/ Invoke \/ SettleReturn \/ SettleThrow \/ Switch

SpecConcurrent == InitConcurrent /\ [][NextConcurrent]_vars

(***************************************************************************)
(* Properties                                                              *)
(***************************************************************************)
Terminal == pc \in {"done", "failed", "rejected"}

\* the serialized error the caller receives
ResponseError == IF kind = "action" THEN response[1].error ELSE response[1].body

\* the dispatch failed in the catch block / at a validation gate
FailedInCatch == pc = "failed" /\ thrown # None
FailedAtGate == pc = "failed" /\ thrown = None

\* the slot whose validation failed
FailedSlot == validated[Len(validated)].slot

\* the parser registered on the dispatcher returns a ServerError for the
\* value the handler threw
ParserClassifies ==
  /\ thrown # None
  /\ IsServerError(ParserApply(Resolved(options.error).parser, thrown[1]))

\* the error options as registered, each falling back on its own
ConfiguredMessage ==
  IF options.error # None /\ options.error[1].defaultMessage # None
    THEN options.error[1].defaultMessage[1] ELSE "An unexpected error occurred"
ConfiguredCode ==
  IF options.error # None /\ options.error[1].defaultCode # None
    THEN options.error[1].defaultCode[1] ELSE "GENERIC_ERROR"
ConfiguredStatus ==
  IF options.error # None /\ options.error[1].defaultStatus # None
    THEN options.error[1].defaultStatus[1] ELSE 500
ConfiguredUiMessage ==
  IF options.error # None /\ options.error[1].defaultUiMessage # None
    THEN options.error[1].defaultUiMessage[1] ELSE "An unexpected error occurred"

\* C1: when a query schema and a body schema are both registered and both
\* reject their input, the dispatch fails with the query-validation error,
\* never the body-validation error.
C1_QueryErrorFirst ==
  ( /\ Terminal
    /\ {"query", "body"} \subseteq options.schemas
    /\ raw["query"] = "invalid"
    /\ raw["body"] = "invalid" )
  => /\ FailedAtGate
     /\ FailedSlot = "query"
     /\ ResponseError.message = ZodMessage("query")
     /\ ResponseError.message # ZodMessage("body")
     /\ ResponseError.code = "VALIDATION_ERROR"

C1_Witness ==
  /\ pc = "failed"
  /\ options.schemas = {"query", "body", "params"}
  /\ raw["query"] = "invalid"
  /\ raw["body"] = "invalid"
  /\ response # None

\* C2: the callable returned by makeServerAction never rejects: whatever the
\* input, the handler outcome, the error options and the logger, it resolves
\* with an envelope of status 'success' or 'error'.
C2_ActionNeverRejects ==
  kind = "action" =>
    /\ pc # "rejected"
    /\ rejection = None
    /\ Terminal => /\ response # None
                   /\ response[1].status \in {"success", "error"}

\* the response reproduces message, code, status and uiMessage of e
Reproduces(e) ==
  /\ response # None
  /\ ResponseError.message = e.message
  /\ ResponseError.code = e.code
  /\ ResponseError.status = e.status
  /\ IF kind = "action"
       THEN /\ response[1].status = "error"
            /\ ResponseError.uiMessage = e.uiMessage
       ELSE /\ response[1].status = e.status
            /\ "uiMessage" \in DOMAIN ResponseError
            /\ ResponseError.uiMessage = e.uiMessage[1]

ThrewCustomServerError ==
  /\ Terminal
  /\ thrown # None
  /\ IsServerError(thrown[1])
  /\ thrown[1].uiMessage # None

\* C3 as stated: a ServerError thrown with its own code, status and uiMessage
\* is reproduced in the final response whatever error options are registered.
C3_AsStated == ThrewCustomServerError => Reproduces(thrown[1])

\* C3: a ServerError thrown with its own code, status and uiMessage is
\* reproduced in the final response whatever default message, code, status
\* and uiMessage are registered, unless the registered parser returns a
\* ServerError for it (the parser's error is then the one returned).
C3_PassThrough ==
  (ThrewCustomServerError /\ ~ParserClassifies) => Reproduces(thrown[1])

C3_Witness ==
  /\ pc = "failed"
  /\ kind = "controller"
  /\ thrown # None
  /\ IsServerError(thrown[1])
  /\ thrown[1].code = "CUSTOM_ERROR"
  /\ thrown[1].status = NOT_FOUND
  /\ thrown[1].uiMessage # None
  /\ options.error # None
  /\ options.error[1].defaultCode # None
  /\ options.error[1].defaultStatus # None
  /\ options.error[1].defaultUiMessage # None
  /\ options.error[1].parser = "errOnly"
  /\ response[1].status = NOT_FOUND

ThrewNonError == thrown # None /\ ~IsError(thrown[1])

\* the content of a thrown non-Error value
ThrownContents == { v.content : v \in { w \in NonErrorValues : "content" \in DOMAIN w } }

DefaultedError ==
  /\ ResponseError.message = ConfiguredMessage
  /\ ResponseError.message \notin ThrownContents
  /\ ResponseError.code = ConfiguredCode
  /\ ResponseError.status = ConfiguredStatus

\* C4 as stated: every non-Error value thrown by a handler yields the
\* configured (or built-in) defaultMessage, code and status.
C4_AsStated == (pc = "failed" /\ ThrewNonError) => DefaultedError

\* C4: a non-Error value thrown by a handler yields the configured (or
\* built-in) defaultMessage, code and status, and nothing of the thrown value,
\* unless the registered parser returns a ServerError for it.
C4_NoLeak == (pc = "failed" /\ ThrewNonError /\ ~ParserClassifies) => DefaultedError

C4_Witness ==
  /\ pc = "failed"
  /\ thrown = Some([tag |-> "object", content |-> "secret"])
  /\ options.error # None
  /\ options.error[1].defaultMessage # None
  /\ options.error[1].parser = "errOnly"
  /\ ResponseError.message = "Custom default message"

\* C5: logger.error is invoked exactly once for every dispatch that ends in
\* Failed, at a validation gate or in the catch block, with the error's
\* message and its serialized form, and never for a dispatch that ends in Done.
C5_LoggedOncePerFailure ==
  /\ pc = "failed" =>
       /\ Len(logCalls) = 1
       /\ logCalls[1].message = ResponseError.message
       /\ logCalls[1].payload.code = ResponseError.code
       /\ logCalls[1].payload.status = ResponseError.status
  /\ pc = "done" => Len(logCalls) = 0

C7_ValidationUiMessage ==
  ( /\ FailedAtGate
    /\ raw[FailedSlot] = "invalid"
    /\ options.error # None
    /\ options.error[1].defaultUiMessage # None )
  => ResponseError.uiMessage = options.error[1].defaultUiMessage[1]

\* C8: parseServerError applies its rules in order, the first match winning:
\* a ServerError returned by the parser, then a thrown ServerError, both
\* unchanged; then ZodError -> VALIDATION_ERROR / 400; then any other Error
\* keeps its message with the default code and status; anything else gets
\* defaultMessage.  A parser result that is not a ServerError changes nothing.
C8_ParseOrder ==
  FailedInCatch =>
    LET e == thrown[1]
        c == ParserApply(Resolved(options.error).parser, e)
        r == parsed[1]
    IN /\ IsServerError(r)
       /\ IsServerError(c) => r = c
       /\ (~IsServerError(c) /\ IsServerError(e)) => r = e
       /\ (~IsServerError(c) /\ IsZodError(e)) =>
            /\ r.message = e.message
            /\ r.code = "VALIDATION_ERROR"
            /\ r.status = 400
            /\ r.uiMessage = Some(ConfiguredUiMessage)
       /\ (~IsServerError(c) /\ e.tag = "Error") =>
            /\ r.message = e.message
            /\ r.code = ConfiguredCode
            /\ r.status = ConfiguredStatus
       /\ (~IsServerError(c) /\ ~IsError(e)) =>
            /\ r.message = ConfiguredMessage
            /\ r.code = ConfiguredCode
            /\ r.status = ConfiguredStatus
       /\ ~IsServerError(c) =>
            r = parseServerError(e,
                  IF options.error = None THEN None
                  ELSE Some([options.error[1] EXCEPT !.parser = "none"]))

C8_Witness ==
  /\ FailedInCatch
  /\ IsServerError(thrown[1])
  /\ options.error # None
  /\ options.error[1].parser = "all"
  /\ parsed = Some(ParserError)

ThrewGenericError == thrown # None /\ thrown[1].tag = "Error"

GenericErrorKept ==
  /\ ResponseError.message = thrown[1].message
  /\ ResponseError.code = ConfiguredCode
  /\ ResponseError.status = ConfiguredStatus
  /\ ResponseError.uiMessage =
       IF kind = "action" THEN Some(ConfiguredUiMessage) ELSE ConfiguredUiMessage
  /\ (options.error # None /\ options.error[1].defaultMessage # None)
       => ResponseError.message # options.error[1].defaultMessage[1]

\* C9 as stated: every generic Error thrown by a handler keeps its message
\* and gets the registered (or built-in) code, status and uiMessage.
C9_AsStated == (pc = "failed" /\ ThrewGenericError) => GenericErrorKept

\* C9: a generic Error thrown by a handler keeps its own message and gets
\* the registered defaultCode, defaultStatus and defaultUiMessage, each
\* falling back on its own to GENERIC_ERROR, 500 and the built-in uiMessage;
\* defaultMessage is not used; unless the registered parser returns a
\* ServerError for it.
C9_GenericError ==
  (pc = "failed" /\ ThrewGenericError /\ ~ParserClassifies) => GenericErrorKept

C9_Witness ==
  /\ pc = "failed"
  /\ ThrewGenericError
  /\ options.error # None
  /\ options.error[1].defaultMessage # None
  /\ options.error[1].defaultCode # None
  /\ options.error[1].defaultStatus = None
  /\ options.error[1].defaultUiMessage = None
  /\ options.error[1].parser = "null"
  /\ ResponseError.code = "CUSTOM_CODE"
  /\ ResponseError.status = 500

\* C10: a successful dispatch of the transport controller answers with the
\* status the handler declared in its { data, status } result, 200 when it
\* declared none, and with the handler's data as body.
C10_DeclaredStatus ==
  ( /\ kind = "controller"
    /\ pc = "done"
    /\ "data" \in DOMAIN returned[1] )
  => /\ response[1].status =
          IF "status" \in DOMAIN returned[1] THEN returned[1].status ELSE 200
     /\ response[1].body = returned[1].data

(***************************************************************************)
(* Error responses of the transport controller                             *)
(***************************************************************************)

\* the serialized error a failed dispatch answers with: the error of the
\* failed validation, or the toJSON() of the error parsed in the catch block
FailureJSON ==
  IF thrown = None
    THEN validated[Len(validated)].result.error
    ELSE toJSON(parsed[1])

\* C11: for every failed dispatch of the transport controller (validation
\* failure or handler throw), the HTTP status of the response equals the
\* status field of the serialized error in the body, and the body is that
\* error's toJSON() output as JSON.
C11_StatusMatchesBody ==
  (kind = "controller" /\ pc = "failed")
  => /\ response[1].body = JsonError(FailureJSON)
     /\ response[1].status = response[1].body.status

\* a controller whose handler threw a 404 ServerError answered 404
C11_Witness ==
  /\ kind = "controller"
  /\ FailedInCatch
  /\ IsServerError(thrown[1])
  /\ thrown[1].status = NOT_FOUND
  /\ parsed[1] = thrown[1]
  /\ response[1].status = NOT_FOUND
  /\ response[1].body.status = NOT_FOUND

\* C12: every failed dispatch of the transport controller yields a response
\* whose status is outside the 2xx range, whatever the handler threw,
\* including a ServerError whose status was set by handler code.
C12_NonSuccessStatus ==
  (kind = "controller" /\ pc = "failed")
  => ~(response[1].status >= 200 /\ response[1].status <= 299)

\* C13: when a handler of the transport controller declares status 204, the
\* response has status 204 and an empty body whatever data was returned; for
\* every other declared status the body is the handler's data.
C13_NoContent ==
  ( /\ kind = "controller"
    /\ pc = "done"
    /\ "status" \in DOMAIN returned[1] )
  => IF returned[1].status = NO_CONTENT
       THEN /\ response[1].status = NO_CONTENT
            /\ response[1].body = [empty |-> TRUE]
       ELSE /\ response[1].status = returned[1].status
            /\ response[1].body = returned[1].data

(***************************************************************************)
(* The arguments of the handler                                            *)
(***************************************************************************)

\* the validated values of the configured slots
ValidatedValues == [s \in options.schemas |-> SchemaParse(s, raw[s]).data]

C16_ParsedValue ==
  handlerCalls # <<>>
  => IF "input" \in options.schemas
       THEN handlerCalls[1][1] = SchemaParse("input", raw["input"]).data
       ELSE \A s \in options.schemas :
              handlerCalls[1][1][s] = SchemaParse(s, raw[s]).data

\* a configured slot arrived coercible and the handler got the coerced value
C16_Witness ==
  /\ handlerCalls # <<>>
  /\ \E s \in options.schemas :
       /\ raw[s] = "coercible"
       /\ (IF s = "input" THEN handlerCalls[1][1] ELSE handlerCalls[1][1][s])
            = "coerced"

(***************************************************************************)
(* validateInput without a schema, the serialization round trip            *)
(***************************************************************************)

\* C15: when no schema is supplied, validateInput returns a valid outcome
\* whose value is the raw input itself, for every input value including
\* null, undefined and non-objects.
C15_PassThrough ==
  ( /\ call.request.fn = "validateInput"
    /\ call.request.schema = None
    /\ call.result # None )
  => call.result[1] = [isValid |-> TRUE, data |-> call.request.input]

\* validateInput(undefined) returned { isValid: true, data: undefined }
C15_Witness ==
  /\ call.request.fn = "validateInput"
  /\ call.request.schema = None
  /\ call.request.input = "undefined"
  /\ call.result = Some([isValid |-> TRUE, data |-> "undefined"])

\* C17: for every ServerError e, a new ServerError constructed from
\* e.toJSON() serializes to an output identical to e.toJSON().
C17_RoundTrip ==
  ( /\ call.request.fn = "fetcher"
    /\ call.request.result.status = "error"
    /\ call.result # None )
  => /\ call.result[1].threw
     /\ toJSON(call.result[1].error) = call.request.result.error

\* the fetcher rebuilt an error that had neither code nor status given, and
\* one that had a uiMessage
C17_Witness ==
  /\ call.request.fn = "fetcher"
  /\ call.request.result.status = "error"
  /\ call.result # None
  /\ call.request.result.error.code = "GENERIC_ERROR"
  /\ call.request.result.error.status = INTERNAL_SERVER_ERROR
  /\ call.request.result.error.uiMessage # None
  /\ IsServerError(call.result[1].error)

(***************************************************************************)
(* The shape of a ServerError and of its serialization                     *)
(***************************************************************************)

\* C18: every ServerError, constructed by handler code or synthesized by
\* parseServerError from any thrown value and any options, has a code and a
\* status present and a non-empty message.
C18_WellFormed ==
  parsed # None
  => \A e \in {parsed[1]} \cup (IF IsServerError(thrown[1]) THEN {thrown[1]} ELSE {}) :
       /\ e.code \in STRING
       /\ e.status \in Nat
       /\ e.message # ""

\* C19 as stated: the serialized error of every error response has the four
\* fields message, code, status and uiMessage, all present, uiMessage being
\* null rather than absent or undefined when the error has none.
C19_AsStated ==
  pc = "failed"
  => /\ DOMAIN ResponseError = {"message", "code", "status", "uiMessage"}
     /\ kind = "action" => ResponseError.uiMessage # None

\* C19: the serialized error of every error response has the fields
\* message, code and status; uiMessage is present with the error's text when
\* the error has one, and otherwise absent from the body of a controller
\* response and undefined in the envelope of an action.
C19_SerializedFields ==
  pc = "failed"
  => /\ ResponseError.message = FailureJSON.message
     /\ ResponseError.code = FailureJSON.code
     /\ ResponseError.status = FailureJSON.status
     /\ IF kind = "action"
          THEN /\ DOMAIN ResponseError = {"message", "code", "status", "uiMessage"}
               /\ ResponseError.uiMessage = FailureJSON.uiMessage
          ELSE IF FailureJSON.uiMessage = None
            THEN DOMAIN ResponseError = {"message", "code", "status"}
            ELSE /\ DOMAIN ResponseError = {"message", "code", "status", "uiMessage"}
                 /\ ResponseError.uiMessage = FailureJSON.uiMessage[1]

\* a controller whose handler threw a 404 ServerError without uiMessage
\* answered 404 with a body of three fields
C19_Witness ==
  /\ kind = "controller"
  /\ FailedInCatch
  /\ IsServerError(thrown[1])
  /\ thrown[1].uiMessage = None
  /\ thrown[1].status = NOT_FOUND
  /\ response[1].status = NOT_FOUND
  /\ DOMAIN response[1].body = {"message", "code", "status"}

\* the ServerErrors that differ from e in meta only
MetaVariants(e) == { [e EXCEPT !.meta = m] : m \in {None, Some("meta-A"), Some("meta-B")} }

\* C20: the meta of a ServerError never reaches the wire: ServerErrors that
\* differ only in meta produce identical toJSON() output, identical error
\* envelopes and identical logger payloads.
C20_MetaStaysInside ==
  (FailedInCatch /\ IsServerError(thrown[1]))
  => \A e \in MetaVariants(thrown[1]) :
       /\ toJSON(e) = toJSON(thrown[1])
       /\ ~parseServerErrorThrows(e, options.error)
       /\ response[1] = Caught(handleError(e, options))
       /\ logCalls[1].payload = handleError(e, options)
       /\ logCalls[1].message = handleError(e, options).message

\* a handler threw a ServerError carrying meta and the failure was answered
\* and logged
C20_Witness ==
  /\ FailedInCatch
  /\ IsServerError(thrown[1])
  /\ thrown[1].meta = Some("meta-A")
  /\ parsed[1] = thrown[1]
  /\ response # None
  /\ Len(logCalls) = 1

(***************************************************************************)
(* Logger and RequestLogger                                                *)
(***************************************************************************)

\* what a transport recorded during the last operation
NewEntries(t) ==
  SubSeq(logs[t], Len(lastCall.before.logs[t]) + 1, Len(logs[t]))

\* the entries the last operation emitted
Emitted ==
  UNION { { NewEntries(t)[i].entry : i \in DOMAIN NewEntries(t) } : t \in Transports }

\* ERROR < WARN < INFO < DEBUG < TRACE
Rank(level) ==
  CHOOSE i \in 1..5 : <<"ERROR", "WARN", "INFO", "DEBUG", "TRACE">>[i] = level

\* the transports array of a logger
TransportsOf(l) == arrays[loggers[l][1].transports]

\* C21: a log call at level L is delivered to the transports iff
\* priority(L) <= priority(configured level), with ERROR < WARN < INFO <
\* DEBUG < TRACE; after setLevel(x) the logger's level is x, so every later
\* call is filtered against x.
C21_LevelFilter ==
  /\ lastCall.op = "setLevel"
       => loggers[lastCall.logger][1].level = lastCall.level
  /\ lastCall.op = "log"
       => \A t \in Transports :
            LET passes == Rank(lastCall.level) <= Rank(loggers[lastCall.logger][1].level)
                times == Occurrences(t, TransportsOf(lastCall.logger))
            IN /\ Len(NewEntries(t)) = IF passes THEN times ELSE 0
               /\ \A i \in DOMAIN NewEntries(t) :
                    NewEntries(t)[i].entry.level = lastCall.level

\* after setLevel(WARN) an INFO call reached no transport and a WARN call did
C21_Witness ==
  /\ lastCall.op = "log"
  /\ lastCall.logger = "logger"
  /\ loggers["logger"][1].level = "WARN"
  /\ lastCall.before.logs["mockTransport"] # <<>>
  /\ lastCall.before.logs["mockTransport"][1].entry.level = "WARN"
  /\ lastCall.level = "INFO"
  /\ Occurrences("mockTransport", TransportsOf("logger")) > 0
  /\ NewEntries("mockTransport") = <<>>

\* the level and requestId of the last RequestLogger call
RequestCallLevel ==
  IF lastCall.op = "logResponse" /\ lastCall.statusCode >= 400 THEN "WARN" ELSE "INFO"
RequestCallId ==
  IF lastCall.op = "logResponse" THEN lastCall.requestId ELSE lastCall.returned

C27_ChildIndependent ==
  ( /\ lastCall.op \in {"addTransport", "setLevel", "setFormatter"}
    /\ lastCall.logger = "childLogger" )
  => /\ loggers["logger"] = lastCall.before.loggers["logger"]
     /\ TransportsOf("logger")
          = lastCall.before.arrays[lastCall.before.loggers["logger"][1].transports]

(***************************************************************************)
(* FileTransport                                                           *)
(***************************************************************************)

\* the log files on disk
LogFiles == { i \in FileIndexes : Exists(i) }

\* no log() call is in flight and none ever overlapped another
Sequential == ~fsLog.overlapped /\ \A t \in Tasks : tasks[t].pc = "idle"

\* C28: after any sequence of sequential FileTransport.log calls, the number
\* of log files on disk (the main file and the rotated files) never exceeds
\* maxFiles, for every maxFiles >= 1.
C28_AtMostMaxFiles ==
  Sequential => Cardinality(LogFiles) <= transport.options[1].maxFiles

\* C29: under any interleaving of concurrent log calls, the main file is
\* renamed to filename.1 only when its size at that moment is at least
\* maxFileSize, and rotated files are only unlinked or shifted by a rotation
\* of a full main file, as in a sequential execution.
C29_RotatesFullFileOnly ==
  \A e \in fsLog.events :
    /\ e.main # None
    /\ e.main[1] >= transport.options[1].maxFileSize

(***************************************************************************)
(* Concurrent invocations of one dispatcher                                *)
(***************************************************************************)

\* the configured slots in validation order, and the first of them whose
\* raw input r the schema rejects (0 when all pass)
Configured == SelectSeq(GateOrder, InSchemas)
FirstRejected(r) ==
  IF \A i \in DOMAIN Configured :
       validateInput(r[Configured[i]], Some(Configured[i])).isValid
    THEN 0
    ELSE CHOOSE i \in DOMAIN Configured :
           /\ ~validateInput(r[Configured[i]], Some(Configured[i])).isValid
           /\ \A j \in 1..(i - 1) :
                validateInput(r[Configured[j]], Some(Configured[j])).isValid

\* what an invocation must hold, going by its own input and its own
\* handler outcome alone
OwnOutcome(l) ==
  /\ \A i \in DOMAIN l.validated :
       l.validated[i] = [slot |-> Configured[i],
                         result |-> validateInput(l.raw[Configured[i]],
                                                  Some(Configured[i]))]
  /\ l.handlerCalls # <<>>
       => /\ FirstRejected(l.raw) = 0
          /\ "input" \in options.schemas
               => l.handlerCalls[1][1] = SchemaParse("input", l.raw["input"]).data
          /\ (options.schemas # {} /\ options.schemas \subseteq MultiSlots)
               => l.handlerCalls[1][1] =
                    [s \in options.schemas |-> SchemaParse(s, l.raw[s]).data]
  /\ l.response # None
       => l.response[1] =
            IF FirstRejected(l.raw) # 0
              THEN ValidationFailure(
                     validateInput(l.raw[Configured[FirstRejected(l.raw)]],
                                   Some(Configured[FirstRejected(l.raw)])).error)
              ELSE IF l.returned # None
                THEN Success(l.returned[1])
                ELSE Caught(handleError(l.thrown[1], options))

\* C26: for any interleaving of concurrent invocations of one dispatcher,
\* each invocation's validated values, error and response depend only on
\* its own input and its own handler outcome, and no dispatch modifies the
\* configuration (schemas, error options, logger).
C26_Independent ==
  /\ [](OwnOutcome(Locals) /\ OwnOutcome(parked.locals))
  /\ [][options' = options /\ kind' = kind]_vars

\* both invocations ended, with different inputs and different outcomes,
\* the one that was called first ending last
C26_Witness ==
  /\ parked.id = 1
  /\ pc = "done"
  /\ parked.locals.pc = "failed"
  /\ parked.locals.thrown # None
  /\ raw # parked.locals.raw
  /\ handlerCalls # <<>>
  /\ parked.locals.handlerCalls # <<>>
  /\ handlerCalls # parked.locals.handlerCalls

(***************************************************************************)
(* The course of one dispatch                                              *)
(***************************************************************************)

\* the handler is invoked at most once and only after every configured
\* validation passed; a failed validation is the last one, ends the dispatch
\* with a response and leaves the handler uninvoked
HandlerAfterGates ==
  /\ Len(handlerCalls) <= 1
  /\ \A i, j \in DOMAIN validated :
       validated[i].slot = validated[j].slot => i = j
  /\ handlerCalls # <<>>
       => /\ { validated[i].slot : i \in DOMAIN validated } = options.schemas
          /\ \A i \in DOMAIN validated : validated[i].result.isValid
  /\ \A i \in DOMAIN validated :
       ~validated[i].result.isValid
         => /\ i = Len(validated)
            /\ pc = "failed"
            /\ response # None
            /\ handlerCalls = <<>>

\* C23: in every dispatch the handler is invoked at most once and only
\* after every configured validation has passed; once a validation fails
\* the dispatch goes straight to Failed, no further slot is validated, the
\* handler is never invoked, and nothing is retried: no step leaves a
\* terminal state.
C23_HandlerOnceAfterGates ==
  /\ []HandlerAfterGates
  /\ [][~Terminal]_vars

\* a controller with three schemas failed at its second gate: two slots
\* validated, the third never, the handler not invoked
C23_Witness ==
  /\ options.schemas = MultiSlots
  /\ FailedAtGate
  /\ Len(validated) = 2
  /\ validated[1].result.isValid
  /\ ~validated[2].result.isValid
  /\ raw["params"] = "invalid"
  /\ handlerCalls = <<>>

\* C24: every dispatch ends in exactly one of Done and Failed: the envelope
\* of an action has status 'success' with data and no error exactly when
\* the handler returned after all validations passed, and status 'error'
\* with an error and no data otherwise.
C24_ExactlyOneOutcome ==
  (kind = "action" /\ Terminal)
  => /\ pc \in {"done", "failed"}
     /\ response # None
     /\ IF returned # None
          THEN /\ pc = "done"
               /\ DOMAIN response[1] = {"status", "data"}
               /\ response[1].status = "success"
               /\ response[1].data = returned[1]
          ELSE /\ pc = "failed"
               /\ DOMAIN response[1] = {"status", "error"}
               /\ response[1].status = "error"

\* C25: no response or envelope exists while the handler's promise is
\* pending, and a rejection that arrives after the suspension is caught and
\* mapped to the error response.
C25_AwaitsSettlement ==
  /\ pc \in {"idle", "validating", "awaiting"}
       => (response = None /\ rejection = None)
  /\ thrown # None
       => /\ pc = "failed"
          /\ response # None
          /\ ResponseError = Caught(handleError(thrown[1], options))
                               [IF kind = "action" THEN "error" ELSE "body"]

(***************************************************************************)
(* The fetcher of the client hooks                                         *)
(***************************************************************************)

\* C30: the fetcher of both client hooks returns the action's data iff the
\* envelope has status 'success'; for status 'error' it throws a ServerError
\* carrying the envelope error's message, code, status and uiMessage; for
\* any other status it throws a ServerError with code UNKNOWN_ERROR.
C30_FetcherOutcome ==
  (call.request.fn = "fetcher" /\ call.result # None)
  => LET result == call.request.result
         outcome == call.result[1]
     IN /\ ~outcome.threw <=> result.status = "success"
        /\ result.status = "success" => outcome.data = result.data
        /\ result.status = "error"
             => /\ IsServerError(outcome.error)
                /\ outcome.error.message = result.error.message
                /\ outcome.error.code = result.error.code
                /\ outcome.error.status = result.error.status
                /\ outcome.error.uiMessage = result.error.uiMessage
        /\ result.status \notin {"success", "error"}
             => /\ IsServerError(outcome.error)
                /\ outcome.error.code = "UNKNOWN_ERROR"

\* the fetcher of the mutation hook got an envelope that is neither a
\* success nor an error and threw UNKNOWN_ERROR
C30_Witness ==
  /\ call.request.fn = "fetcher"
  /\ call.request.hook = "mutation"
  /\ call.request.result.status = "idle"
  /\ call.result # None
  /\ call.result[1].threw
  /\ call.result[1].error.code = "UNKNOWN_ERROR"
  /\ call.result[1].error.message = "Unknown error"

====
